---- MODULE Spec2Model ----
(***************************************************************************)
(* Model of the three ranking extractors of update-scripts/:               *)
(*   extract_abs.py, extract_full_core.py, extract_sjr.py.                 *)
(*                                                                         *)
(* A Python str is a sequence of one-character strings.  A dict is a       *)
(* sequence of records [k, v] in insertion order (Python dicts keep        *)
(* insertion order, and assigning to an existing key keeps its position).  *)
(* One behaviour is one run of one script; the rows the csv reader yields  *)
(* are inputs chosen row by row.                                           *)
(***************************************************************************)
EXTENDS Integers, Sequences, FiniteSets, TLC

\* Number of data rows the reader yields before end of input.
MaxRows == 2

(***************************************************************************)
(* Characters and str methods                                              *)
(***************************************************************************)
Q  == "\""
BS == "\\"
TAB == "\t"

\* The characters the model uses, in code-point order.
CharOrder ==
  << TAB, " ", Q, "*", ",", "-", ".", "0", "1", "2", "3", "4", "5", "6",
     "7", "8", "9", "A", "B", "C", "D", "E", "F", "G", "H", "I", "J", "K",
     "L", "M", "N", "O", "P", "Q", "R", "S", "T", "U", "V", "W", "X", "Y",
     "Z", "[", BS, "]", "a", "b", "c", "d", "e", "f", "g", "h", "i", "j",
     "k", "l", "m", "n", "o", "p", "q", "r", "s", "t", "u", "v", "w", "x",
     "y", "z" >>

UpperChars == << "A", "B", "C", "D", "E", "F", "G", "H", "I", "J", "K", "L",
                 "M", "N", "O", "P", "Q", "R", "S", "T", "U", "V", "W", "X",
                 "Y", "Z" >>
LowerChars == << "a", "b", "c", "d", "e", "f", "g", "h", "i", "j", "k", "l",
                 "m", "n", "o", "p", "q", "r", "s", "t", "u", "v", "w", "x",
                 "y", "z" >>

Whitespace == { " ", TAB }
Digits == << "0", "1", "2", "3", "4", "5", "6", "7", "8", "9" >>

IsUpper(c) == \E i \in 1..26 : UpperChars[i] = c
IsDigit(c) == \E i \in 1..10 : Digits[i] = c
DigitVal(c) == (CHOOSE i \in 1..10 : Digits[i] = c) - 1
Ord(c) == CHOOSE i \in 1..Len(CharOrder) : CharOrder[i] = c

\* str.lower()
LowerChar(c) ==
  IF IsUpper(c) THEN LowerChars[CHOOSE i \in 1..26 : UpperChars[i] = c] ELSE c

Lower(s) == [i \in 1..Len(s) |-> LowerChar(s[i])]

\* str.strip(chars): drop leading and trailing characters that are in cs.
RECURSIVE LStrip(_, _)
LStrip(s, cs) ==
  IF s # << >> /\ s[1] \in cs THEN LStrip(Tail(s), cs) ELSE s

RECURSIVE RStrip(_, _)
RStrip(s, cs) ==
  IF s # << >> /\ s[Len(s)] \in cs THEN RStrip(SubSeq(s, 1, Len(s) - 1), cs)
  ELSE s

StripChars(s, cs) == RStrip(LStrip(s, cs), cs)

\* str.strip()
Strip(s) == StripChars(s, Whitespace)

\* str.startswith(p)
StartsWith(s, p) == Len(s) >= Len(p) /\ SubSeq(s, 1, Len(p)) = p

\* str.replace(old, new): every non-overlapping occurrence, left to right.
RECURSIVE Replace(_, _, _)
Replace(s, old, new) ==
  IF Len(s) < Len(old) THEN s
  ELSE IF StartsWith(s, old)
       THEN new \o Replace(SubSeq(s, Len(old) + 1, Len(s)), old, new)
       ELSE << s[1] >> \o Replace(Tail(s), old, new)

\* Lexicographic order of str by code point (the order sorted() uses).
RECURSIVE StrLess(_, _)
StrLess(a, b) ==
  IF b = << >> THEN FALSE
  ELSE IF a = << >> THEN TRUE
  ELSE IF a[1] # b[1] THEN Ord(a[1]) < Ord(b[1])
  ELSE StrLess(Tail(a), Tail(b))

(***************************************************************************)
(* float(): the SJR strings the model draws are numerals over digits, "."  *)
(* and "," with at most three fractional digits, so a float is held        *)
(* exactly as a number of thousandths.                                     *)
(***************************************************************************)
AllDigits(s) == \A i \in 1..Len(s) : IsDigit(s[i])

RECURSIVE IntOf(_)
IntOf(s) ==
  IF s = << >> THEN 0
  ELSE 10 * IntOf(SubSeq(s, 1, Len(s) - 1)) + DigitVal(s[Len(s)])

DotAt(s) == { i \in 1..Len(s) : s[i] = "." }

\* TRUE iff float(s) does not raise ValueError, for numerals over digits and ".".
FloatOk(s) ==
  \/ s # << >> /\ AllDigits(s)
  \/ \E i \in DotAt(s) :
        /\ AllDigits(SubSeq(s, 1, i - 1))
        /\ AllDigits(SubSeq(s, i + 1, Len(s)))
        /\ Len(s) > 1

Pad3(f) ==
  IF Len(f) = 0 THEN 0
  ELSE IF Len(f) = 1 THEN 100 * IntOf(f)
  ELSE IF Len(f) = 2 THEN 10 * IntOf(f)
  ELSE IntOf(f)

\* float(s) in thousandths.
FloatVal(s) ==
  IF DotAt(s) = { } THEN 1000 * IntOf(s)
  ELSE LET i == CHOOSE j \in DotAt(s) : TRUE
       IN 1000 * IntOf(SubSeq(s, 1, i - 1)) + Pad3(SubSeq(s, i + 1, Len(s)))

RECURSIVE IntRepr(_)
IntRepr(n) ==
  IF n < 10 THEN << Digits[n + 1] >>
  ELSE IntRepr(n \div 10) \o << Digits[(n % 10) + 1] >>

\* repr(float): shortest numeral, always with a fractional part.
FloatRepr(v) ==
  LET ip == v \div 1000
      fp == v % 1000
      frac == IF fp % 100 = 0 THEN << Digits[(fp \div 100) + 1] >>
              ELSE IF fp % 10 = 0
                   THEN << Digits[(fp \div 100) + 1],
                           Digits[((fp \div 10) % 10) + 1] >>
                   ELSE << Digits[(fp \div 100) + 1],
                           Digits[((fp \div 10) % 10) + 1],
                           Digits[(fp % 10) + 1] >>
  IN IntRepr(ip) \o << "." >> \o frac

(***************************************************************************)
(* dict                                                                    *)
(***************************************************************************)
Keys(d) == { d[i].k : i \in 1..Len(d) }

HasKey(d, key) == \E i \in 1..Len(d) : d[i].k = key

Get(d, key) == d[CHOOSE i \in 1..Len(d) : d[i].k = key].v

\* A setdefault-style store that keeps the value of the first row.
DictSetKeepFirst(d, key, val) ==
  IF HasKey(d, key) THEN d ELSE Append(d, [k |-> key, v |-> val])

\* d[key] = val
DictSet(d, key, val) ==
  IF HasKey(d, key)
  THEN [i \in 1..Len(d) |-> IF d[i].k = key THEN [k |-> key, v |-> val] ELSE d[i]]
  ELSE Append(d, [k |-> key, v |-> val])

\* The list without its element at position i.
Without(d, i) == SubSeq(d, 1, i - 1) \o SubSeq(d, i + 1, Len(d))

\* items() left in insertion order.
SortedItemsUnsorted(d) == d

\* sorted(d.items()): keys are unique, so the order is the order of the keys.
RECURSIVE SortedItems(_)
SortedItems(d) ==
  IF d = << >> THEN << >>
  ELSE LET m == CHOOSE i \in 1..Len(d) :
                  \A j \in 1..Len(d) : j # i => StrLess(d[i].k, d[j].k)
       IN << d[m] >> \o SortedItems(Without(d, m))

(***************************************************************************)
(* Row transforms.  A transform yields what one loop iteration does:       *)
(*   kind "store": table[key] = val;  "skip": nothing is stored;           *)
(*   kind "raise": the exception exc leaves the loop.                      *)
(* sel is the rank the CORE transform selected (primary_rank).             *)
(***************************************************************************)
NoVal == [none |-> TRUE]

Store(key, val, sel) ==
  [kind |-> "store", key |-> key, val |-> val, sel |-> sel, exc |-> "", diag |-> ""]
Skip(sel, diag) ==
  [kind |-> "skip", key |-> << >>, val |-> NoVal, sel |-> sel, exc |-> "", diag |-> diag]
Raise(exc) ==
  [kind |-> "raise", key |-> << >>, val |-> NoVal, sel |-> << >>, exc |-> exc, diag |-> ""]

\* An ABS transform that forgets .lower().
AbsTransformNoLower(row) ==
  IF Len(row) < 3 THEN Raise("IndexError")
  ELSE Store(Strip(row[2]), [abs |-> Strip(row[3])], << >>)

\* extract_abs.py, loop body: row[1] and row[2] are read without a length check.
AbsTransform(row) ==
  IF Len(row) < 3 THEN Raise("IndexError")
  ELSE LET title == Lower(Strip(row[2]))
           rank  == Strip(row[3])
       IN Store(title, [abs |-> rank], << >>)

\* A field DictReader fills with None because the row is shorter than the header.
NoneVal == << "None" >>

\* extract_sjr.py, loop body.  None.strip raises AttributeError, which the
\* except ValueError clause does not catch.
SjrTransform(row) ==
  IF row.Title = NoneVal \/ row.SJR = NoneVal \/ row.Quartile = NoneVal
  THEN Raise("AttributeError")
  ELSE LET title     == Lower(Strip(StripChars(row.Title, { Q })))
           sjr_value == Strip(row.SJR)
           quartile  == Strip(row.Quartile)
           numeral   == Replace(sjr_value, << "," >>, << "." >>)
       IN IF FloatOk(numeral)
          THEN Store(title,
                     [sjr |-> FloatVal(numeral),
                      quartile |-> IF quartile # << >> THEN quartile ELSE << "-" >>],
                     << >>)
          ELSE Skip(<< >>, "Warning: Could not convert SJR value")

Australasian == << "A", "u", "s", "t", "r", "a", "l", "a", "s", "i", "a", "n" >>
National     == << "N", "a", "t", "i", "o", "n", "a", "l" >>
AuStr  == << "A", "u" >>
NatStr == << "N", "a", "t" >>
TBR == << "T", "B", "R" >>
MainRanks == { << "A", "*" >>, << "A" >>, << "B" >>, << "C" >> }
Ed2023 == << " ", "[", "2", "0", "2", "3", "]" >>
Ed2021 == << " ", "[", "2", "0", "2", "1", "]" >>

\* A selection that prefers the 2021 rank.
PrimaryRankPrefers2021(rank_2023, rank_2021) ==
  IF rank_2021 # << >> THEN rank_2021 ELSE rank_2023

\* primary_rank = rank_2023 if rank_2023 else rank_2021
PrimaryRank(rank_2023, rank_2021) ==
  IF rank_2023 # << >> THEN rank_2023 ELSE rank_2021

\* f" [{edition}]" with edition = '2023' if rank_2023 else '2021'
EditionTag(rank_2023) == IF rank_2023 # << >> THEN Ed2023 ELSE Ed2021

\* extract_full_core.py, loop body.  Python columns 1, 4, 5 are row[2], row[5],
\* row[6] here (sequences start at 1).
CoreTransform(row) ==
  IF Len(row) < 9 THEN Skip(<< >>, "Ignored row")
  ELSE LET conference_name == Strip(row[2])
           rank_2023 == Strip(row[5])
           rank_2021 == Strip(row[6])
           primary_rank == PrimaryRank(rank_2023, rank_2021)
       IN IF conference_name = << >> THEN Skip(<< >>, "")
          ELSE IF primary_rank \in MainRanks
          THEN Store(conference_name, primary_rank \o EditionTag(rank_2023),
                     primary_rank)
          ELSE IF StartsWith(primary_rank, Australasian)
          THEN Store(conference_name, Replace(primary_rank, Australasian, AuStr),
                     primary_rank)
          ELSE IF StartsWith(primary_rank, National)
          THEN Store(conference_name, Replace(primary_rank, National, NatStr),
                     primary_rank)
          ELSE IF primary_rank = TBR
          THEN Store(conference_name, TBR, primary_rank)
          ELSE Skip(primary_rank, "")

Transform(script, row) ==
  IF script = "ABS" THEN AbsTransform(row)
  ELSE IF script = "SJR" THEN SjrTransform(row)
  ELSE CoreTransform(row)

(***************************************************************************)
(* Serialization.  A file is [written, entries]; an entry holds the text   *)
(* of the key literal and of each value literal as the code emits it.      *)
(***************************************************************************)
\* json's string escaping with ensure_ascii=False.
RECURSIVE JsonEscape(_)
JsonEscape(s) ==
  IF s = << >> THEN << >>
  ELSE (IF s[1] = Q THEN << BS, Q >>
        ELSE IF s[1] = BS THEN << BS, BS >>
        ELSE IF s[1] = TAB THEN << BS, "t" >>
        ELSE << s[1] >>) \o JsonEscape(Tail(s))

JsonString(s) == << Q >> \o JsonEscape(s) \o << Q >>

\* f'"{s}"': the text between the quotes is the str itself.
RawQuoted(s) == << Q >> \o s \o << Q >>

NoFile == [written |-> FALSE, entries |-> << >>]

\* json.dump(abs_dict, f, indent=2, ensure_ascii=False)
AbsJsonDump(d) ==
  [i \in 1..Len(d) |->
     [k |-> JsonString(d[i].k), v |-> [abs |-> JsonString(d[i].v.abs)]]]

\* json.dump(sjr_dict, f, indent=2, ensure_ascii=False)
SjrJsonDump(d) ==
  [i \in 1..Len(d) |->
     [k |-> JsonString(d[i].k),
      v |-> [sjr |-> FloatRepr(d[i].v.sjr),
             quartile |-> JsonString(d[i].v.quartile)]]]

\* json.dump(core_rankings, f, indent=2, ensure_ascii=False); the same call
\* writes the object literal of core_rankings.js.
CoreJsonDump(d) ==
  [i \in 1..Len(d) |-> [k |-> JsonString(d[i].k), v |-> JsonString(d[i].v)]]

JsonDump(script, d) ==
  IF script = "ABS" THEN AbsJsonDump(d)
  ELSE IF script = "SJR" THEN SjrJsonDump(d)
  ELSE CoreJsonDump(d)

\* extract_abs.py generate_javascript_dict: one line per sorted item.
AbsGenerateJs(d) ==
  LET items == SortedItems(d)
  IN [i \in 1..Len(items) |->
        [k |-> RawQuoted(items[i].k),
         v |-> [abs |-> RawQuoted(items[i].v.abs)]]]

\* extract_sjr.py generate_javascript_dict: one line per sorted item.
SjrGenerateJs(d) ==
  LET items == SortedItems(d)
  IN [i \in 1..Len(items) |->
        [k |-> RawQuoted(items[i].k),
         v |-> [sjr |-> FloatRepr(items[i].v.sjr),
                quartile |-> RawQuoted(items[i].v.quartile)]]]

GenerateJs(script, d) ==
  IF script = "ABS" THEN AbsGenerateJs(d)
  ELSE IF script = "SJR" THEN SjrGenerateJs(d)
  ELSE CoreJsonDump(d)

(***************************************************************************)
(* Decoding, as a JSON parser and a JavaScript parser read the texts the   *)
(* scripts wrote (the grammars of the two formats, not code of the         *)
(* scripts).                                                               *)
(***************************************************************************)
Bad == [ok |-> FALSE, s |-> << >>]

\* The character an escape sequence \c stands for; json says whether the
\* reader is a JSON parser (which rejects escapes JavaScript accepts).
EscapeOk(c, json) == ~json \/ c \in { Q, BS, "t" }
Unescape(c) == IF c = "t" THEN TAB ELSE c

\* Read a string literal from position i (just after the opening quote).
\* It is well formed iff its first unescaped quote is its last character.
RECURSIVE Scan(_, _, _, _)
Scan(text, i, acc, json) ==
  IF i > Len(text) THEN Bad
  ELSE IF text[i] = Q
       THEN IF i = Len(text) THEN [ok |-> TRUE, s |-> acc] ELSE Bad
  ELSE IF text[i] = BS
       THEN IF i + 1 > Len(text) \/ ~EscapeOk(text[i + 1], json) THEN Bad
            ELSE Scan(text, i + 2, Append(acc, Unescape(text[i + 1])), json)
  ELSE IF json /\ text[i] = TAB THEN Bad
  ELSE Scan(text, i + 1, Append(acc, text[i]), json)

DecodeString(text, json) ==
  IF Len(text) < 2 \/ text[1] # Q THEN Bad ELSE Scan(text, 2, << >>, json)

DecodeNumber(text) ==
  IF FloatOk(text) THEN [ok |-> TRUE, s |-> FloatVal(text)]
  ELSE [ok |-> FALSE, s |-> 0]

\* A decoded entry: [ok, k, v], v in the shape of the table's values.
DecodeEntry(script, e, json) ==
  LET key == DecodeString(e.k, json)
  IN IF script = "ABS"
     THEN LET a == DecodeString(e.v.abs, json)
          IN [ok |-> key.ok /\ a.ok, k |-> key.s, v |-> [abs |-> a.s]]
     ELSE IF script = "SJR"
     THEN LET n == DecodeNumber(e.v.sjr)
              q == DecodeString(e.v.quartile, json)
          IN [ok |-> key.ok /\ n.ok /\ q.ok, k |-> key.s,
              v |-> [sjr |-> n.s, quartile |-> q.s]]
     ELSE LET r == DecodeString(e.v, json)
          IN [ok |-> key.ok /\ r.ok, k |-> key.s, v |-> r.s]

\* The decoded file: ok iff every entry parses; items is the decoded mapping.
Decode(script, file, json) ==
  LET dec == [i \in 1..Len(file.entries) |-> DecodeEntry(script, file.entries[i], json)]
  IN [ok |-> \A i \in 1..Len(dec) : dec[i].ok,
      items |-> { [k |-> dec[i].k, v |-> dec[i].v] : i \in 1..Len(dec) }]

(***************************************************************************)
(* Input rows the csv reader can yield.                                    *)
(***************************************************************************)
Col0 == << "x" >>

AbsTitles ==
  { << >>, << " " >>, << "a" >>, << " ", "A", TAB >>, << "b" >>, << "B", "a" >>,
    << "a", Q >>, << "a", BS >> }
AbsRankCells == { << "4", "*" >>, << " ", "3", " " >> }

\* csv.reader rows: a blank line is [], a line may have fewer than 3 cells.
AbsRows ==
  { << Col0, t, r >> : t \in AbsTitles, r \in AbsRankCells }
    \cup { << >>, << Col0, << "a" >> >> }

SjrTitles ==
  { << >>, << "a" >>, << " ", "A" >>, << Q, "b", " ", Q >>, << "a", Q, "b" >> }
SjrCells == { << "1", ",", "5" >>, << "1", ".", "5", "0" >>, << "2", ",", "x" >> }
QuartileCells == { << "Q", "1" >>, << >> }

\* csv.DictReader rows: a field the line does not reach is None.
SjrRows ==
  { [Title |-> t, SJR |-> v, Quartile |-> q] :
      t \in SjrTitles, v \in SjrCells, q \in QuartileCells }
    \cup { [Title |-> << "a" >>, SJR |-> << "1", ",", "5" >>, Quartile |-> NoneVal],
           [Title |-> << "a" >>, SJR |-> NoneVal, Quartile |-> NoneVal],
           [Title |-> NoneVal, SJR |-> NoneVal, Quartile |-> NoneVal] }

CoreTitles == { << >>, << "X", "y", " " >>, << " ", "b", " " >> }
Rank2023Cells ==
  { << "A", "*" >>, Australasian \o << " ", "B" >>,
    Australasian \o << " " >> \o Australasian,
    National \o << " " >> \o National,
    << " ", "T", "B", "R" >>, << "U" >> }
Rank2021Cells == { << >>, << "B" >> }

\* The (2023 rank, 2021 rank) cells of a row: a 2023 rank alone, an empty or
\* blank 2023 cell with or without a 2021 rank, and both ranks present.
CoreRankPairs ==
  { << r23, << >> >> : r23 \in Rank2023Cells }
    \cup { << r23, r21 >> : r23 \in { << >>, << " " >> }, r21 \in Rank2021Cells }
    \cup { << << "A", "*" >>, << "B" >> >>, << << "U" >>, << "B" >> >> }

\* csv.reader rows: 9 cells, or fewer.
CoreRows ==
  { << Col0, t, Col0, Col0, rp[1], rp[2], Col0, Col0, Col0 >> :
      t \in CoreTitles, rp \in CoreRankPairs }
    \cup { << Col0, << "X", "y" >>, Col0, Col0, << "A" >> >> }

Rows(s) == IF s = "ABS" THEN AbsRows ELSE IF s = "SJR" THEN SjrRows ELSE CoreRows

Scripts == { "ABS", "CORE", "SJR" }

(***************************************************************************)
(* State of one run                                                        *)
(***************************************************************************)
VARIABLES
  script,      \* which script runs
  argGiven,    \* ABS: a file name is on the command line
  fileExists,  \* the input file exists
  pc,          \* position in the script
  table,       \* abs_dict / sjr_dict / core_rankings
  rowsRead,    \* the rows the loop has consumed, in order
  outcomes,    \* what each loop iteration did, in order
  exc,         \* the exception that ended the run, "" if none
  stdout,      \* diagnostics printed
  log,         \* file-system events, in order
  jsonFile,    \* <name>_rankings.json
  jsFile       \* <name>_rankings.js

vars == << script, argGiven, fileExists, pc, table, rowsRead, outcomes, exc,
           stdout, log, jsonFile, jsFile >>

\* First statement of each script's __main__ block.
EntryPoint(s) ==
  IF s = "ABS" THEN "main" ELSE IF s = "SJR" THEN "check" ELSE "open"

Init ==
  /\ script \in Scripts
  /\ argGiven \in BOOLEAN
  /\ (script # "ABS" => argGiven)
  /\ fileExists \in BOOLEAN
  /\ pc = EntryPoint(script)
  /\ table = << >>
  /\ rowsRead = << >>
  /\ outcomes = << >>
  /\ exc = ""
  /\ stdout = { }
  /\ log = << >>
  /\ jsonFile = NoFile
  /\ jsFile = NoFile

\* extract_abs.py: if len(sys.argv) < 2: print(...); exit()
CheckArgs ==
  /\ pc = "main"
  /\ IF argGiven
     THEN pc' = "check" /\ stdout' = stdout
     ELSE pc' = "exited" /\ stdout' = stdout \cup { "no_filename" }
  /\ UNCHANGED << script, argGiven, fileExists, table, rowsRead, outcomes, exc,
                  log, jsonFile, jsFile >>

\* if os.path.exists(csv_file): print('Import file exists')
\* else: print('!!! Import file does not exist'); exit()
\* ABS and SJR run it before the extraction, CORE after it.
ExistsCheck ==
  /\ pc \in { "check", "postcheck" }
  /\ log' = Append(log, "exists_check")
  /\ IF fileExists
     THEN /\ stdout' = stdout \cup { "exists" }
          /\ pc' = IF pc = "check" THEN "open" ELSE "done"
     ELSE /\ stdout' = stdout \cup { "missing" }
          /\ pc' = "exited"
  /\ UNCHANGED << script, argGiven, fileExists, table, rowsRead, outcomes, exc,
                  jsonFile, jsFile >>

\* with open(csv_file, 'r', encoding='utf-8')
OpenInput ==
  /\ pc = "open"
  /\ log' = Append(log, "open_input")
  /\ IF fileExists
     THEN pc' = (IF script = "ABS" THEN "header" ELSE "loop") /\ exc' = exc
     ELSE pc' = "raised" /\ exc' = "FileNotFoundError"
  /\ UNCHANGED << script, argGiven, fileExists, table, rowsRead, outcomes, stdout,
                  jsonFile, jsFile >>

\* extract_abs.py: header = next(reader); an empty file raises StopIteration.
ReadHeader ==
  /\ pc = "header"
  /\ \E hasLine \in BOOLEAN :
        IF hasLine THEN pc' = "loop" /\ exc' = exc
        ELSE pc' = "raised" /\ exc' = "StopIteration"
  /\ UNCHANGED << script, argGiven, fileExists, table, rowsRead, outcomes, stdout,
                  log, jsonFile, jsFile >>

\* One iteration of "for row in reader".
ReadRow ==
  /\ pc = "loop"
  /\ Len(rowsRead) < MaxRows
  /\ \E row \in Rows(script) :
        LET r == Transform(script, row)
        IN /\ rowsRead' = Append(rowsRead, row)
           /\ outcomes' = Append(outcomes, r)
           /\ log' = Append(log, "row")
           /\ table' = IF r.kind = "store" THEN DictSet(table, r.key, r.val)
                       ELSE table
           /\ stdout' = IF r.diag # "" THEN stdout \cup { r.diag } ELSE stdout
           /\ IF r.kind = "raise"
              THEN pc' = "raised" /\ exc' = r.exc
              ELSE pc' = pc /\ exc' = exc
  /\ UNCHANGED << script, argGiven, fileExists, jsonFile, jsFile >>

\* The reader is exhausted; the with block closes the input.
EndOfInput ==
  /\ pc = "loop"
  /\ pc' = "json"
  /\ log' = Append(log, "eof")
  /\ UNCHANGED << script, argGiven, fileExists, table, rowsRead, outcomes, exc,
                  stdout, jsonFile, jsFile >>

\* A JS step that removes the JSON file when the JS file cannot be opened.
WriteJSRollback ==
  /\ pc = "js"
  /\ \E ok \in BOOLEAN :
        IF ok
        THEN /\ jsFile' = [written |-> TRUE, entries |-> GenerateJs(script, table)]
             /\ jsonFile' = jsonFile
             /\ log' = log \o << "open_js", "close_js" >>
             /\ pc' = IF script = "CORE" THEN "postcheck" ELSE "done"
             /\ exc' = exc
        ELSE /\ jsFile' = jsFile
             /\ jsonFile' = NoFile
             /\ log' = log \o << "open_js_failed" >>
             /\ pc' = "raised"
             /\ exc' = "OSError"
  /\ UNCHANGED << script, argGiven, fileExists, table, rowsRead, outcomes, stdout >>

\* with open(<json>, 'w', encoding='utf-8') as f: json.dump(...)
WriteJSON ==
  /\ pc = "json"
  /\ \E ok \in BOOLEAN :
        IF ok
        THEN /\ jsonFile' = [written |-> TRUE, entries |-> JsonDump(script, table)]
             /\ log' = log \o << "open_json", "close_json" >>
             /\ pc' = "js"
             /\ exc' = exc
        ELSE /\ jsonFile' = jsonFile
             /\ log' = log \o << "open_json_failed" >>
             /\ pc' = "raised"
             /\ exc' = "OSError"
  /\ UNCHANGED << script, argGiven, fileExists, table, rowsRead, outcomes, stdout,
                  jsFile >>

\* with open(<js>, 'w', encoding='utf-8') as f: f.write(...)
WriteJS ==
  /\ pc = "js"
  /\ \E ok \in BOOLEAN :
        IF ok
        THEN /\ jsFile' = [written |-> TRUE, entries |-> GenerateJs(script, table)]
             /\ log' = log \o << "open_js", "close_js" >>
             /\ pc' = IF script = "CORE" THEN "postcheck" ELSE "done"
             /\ exc' = exc
        ELSE /\ jsFile' = jsFile
             /\ log' = log \o << "open_js_failed" >>
             /\ pc' = "raised"
             /\ exc' = "OSError"
  /\ UNCHANGED << script, argGiven, fileExists, table, rowsRead, outcomes, stdout,
                  jsonFile >>

Next ==
  \/ CheckArgs
  \/ ExistsCheck
  \/ OpenInput
  \/ ReadHeader
  \/ ReadRow
  \/ EndOfInput
  \/ WriteJSON
  \/ WriteJS

Spec == Init /\ [][Next]_vars

(***************************************************************************)
(* Vocabulary of the properties                                            *)
(***************************************************************************)
Finished == pc \in { "done", "exited", "raised" }
Extracted == pc \in { "json", "js", "postcheck", "done" }

LastRow == rowsRead[Len(rowsRead)]

\* What the last loop iteration did.
last == outcomes[Len(outcomes)]

\* The row has a title cell.
HasTitle(row) ==
  IF script = "SJR" THEN row.Title # NoneVal ELSE Len(row) >= 2

TitleOf(row) == IF script = "SJR" THEN row.Title ELSE row[2]

Trimmed(s) ==
  s = << >> \/ (s[1] \notin Whitespace /\ s[Len(s)] \notin Whitespace)

NoUpper(s) == \A i \in 1..Len(s) : ~IsUpper(s[i])

\* The key each script's documentation gives for a title.
KeyFor(title) ==
  IF script = "ABS" THEN Lower(Strip(title))
  ELSE IF script = "SJR" THEN Lower(Strip(StripChars(title, { Q })))
  ELSE Strip(title)

\* The text between the quotes of an emitted literal.
Inner(text) == SubSeq(text, 2, Len(text) - 1)

\* C1 (as stated): in all three extractors every key is the trimmed and
\* lowercased title of a row read, has no upper-case letter and no leading or
\* trailing whitespace.
C1_KeyIsTrimmedLowercasedTitle ==
  \A i \in 1..Len(table) :
     /\ \E j \in 1..Len(rowsRead) :
           /\ HasTitle(rowsRead[j])
           /\ table[i].k = Lower(Strip(TitleOf(rowsRead[j])))
     /\ NoUpper(table[i].k)
     /\ Trimmed(table[i].k)

\* C1 (amended): an ABS key is the trimmed, lowercased title; an SJR key is
\* the title with wrapping double quotes removed, then trimmed and lowercased;
\* a CORE key is the trimmed title with its case kept.  No key has leading or
\* trailing whitespace, no ABS or SJR key has an upper-case letter, and the
\* row just stored is found under its key.
C1_KeyIsNormalizedTitle ==
  /\ \A i \in 1..Len(table) :
        /\ \E j \in 1..Len(rowsRead) :
              /\ HasTitle(rowsRead[j])
              /\ table[i].k = KeyFor(TitleOf(rowsRead[j]))
        /\ Trimmed(table[i].k)
        /\ (script # "CORE" => NoUpper(table[i].k))
  /\ (rowsRead # << >> /\ last.kind = "store")
        => /\ HasTitle(LastRow)
           /\ HasKey(table, KeyFor(TitleOf(LastRow)))

\* A CORE row whose title has surrounding whitespace and an upper-case letter
\* has been stored.
C1_Witness ==
  /\ script = "CORE"
  /\ rowsRead # << >>
  /\ last.kind = "store"
  /\ TitleOf(LastRow) = << "X", "y", " " >>
  /\ HasKey(table, << "X", "y" >>)

\* C2: after extraction every key of the table is a non-empty string.
C2_KeysNonEmpty ==
  Extracted => \A i \in 1..Len(table) : table[i].k # << >>

\* C3: no row-level failure (short row, missing field, unparsable SJR value)
\* aborts the run; the row is skipped and the loop goes on.
C3_RowFailureNeverAborts ==
  /\ (pc = "raised" => exc \notin { "IndexError", "AttributeError", "ValueError" })
  /\ (rowsRead # << >> => last.kind # "raise")

\* C4: the existence check precedes every open of the input; when the input
\* file is missing the run ends by printing the missing-file diagnostic, and
\* writes no output file.
C4_CheckPrecedesOpen ==
  /\ \A i \in 1..Len(log) :
        log[i] = "open_input" => \E j \in 1..(i - 1) : log[j] = "exists_check"
  /\ (argGiven /\ ~fileExists /\ Finished)
        => /\ pc = "exited"
           /\ "missing" \in stdout
           /\ ~jsonFile.written
           /\ ~jsFile.written

\* The key an entry of the embeddable-script file denotes.
JsKey(e) == IF script = "CORE" THEN DecodeString(e.k, FALSE).s ELSE Inner(e.k)

C6_RoundTrip ==
  (jsonFile.written /\ jsFile.written) =>
    LET a == Decode(script, jsonFile, TRUE)
        b == Decode(script, jsFile, FALSE)
    IN a.ok /\ b.ok /\ a.items = b.items

\* C7: for a CORE row with at least 9 columns and a non-empty title, the
\* trimmed 2023 rank is the selected rank whenever it is non-empty, whatever
\* the 2021 column holds, and the 2021 rank is selected only when the 2023
\* rank is empty; a selected rank among A*, A, B, C is stored as
\* "<rank> [2023]" when it came from the 2023 column and "<rank> [2021]" when
\* it came from the 2021 column.
C7_CoreRankSelection ==
  (script = "CORE" /\ rowsRead # << >> /\ Len(LastRow) >= 9
     /\ Strip(LastRow[2]) # << >>) =>
    LET name == Strip(LastRow[2])
        c4   == Strip(LastRow[5])
        c5   == Strip(LastRow[6])
        main == { << "A", "*" >>, << "A" >>, << "B" >>, << "C" >> }
    IN /\ (c4 # << >> => last.sel = c4)
       /\ (c4 = << >> => last.sel = c5)
       /\ (c4 \in main =>
             /\ HasKey(table, name)
             /\ Get(table, name) = c4 \o << " ", "[", "2", "0", "2", "3", "]" >>)
       /\ ((c4 = << >> /\ c5 \in main) =>
             /\ HasKey(table, name)
             /\ Get(table, name) = c5 \o << " ", "[", "2", "0", "2", "1", "]" >>)

\* A CORE row with both rank columns filled has been stored under its 2023 rank.
C7_Witness ==
  /\ script = "CORE"
  /\ rowsRead # << >>
  /\ Len(LastRow) >= 9
  /\ LastRow[5] = << "A", "*" >>
  /\ LastRow[6] = << "B" >>
  /\ last.kind = "store"
  /\ Get(table, last.key) = << "A", "*", " ", "[", "2", "0", "2", "3", "]" >>

\* C8: a stored CORE rank that starts with "Australasian" ("National") is the
\* selected rank with only that leading prefix rewritten to "Au" ("Nat"); every
\* character after the prefix is unchanged.
C8_OnlyPrefixRewritten ==
  (script = "CORE" /\ rowsRead # << >> /\ last.kind = "store") =>
    /\ StartsWith(last.sel, Australasian) =>
         Get(table, last.key)
           = << "A", "u" >> \o SubSeq(last.sel, Len(Australasian) + 1, Len(last.sel))
    /\ StartsWith(last.sel, National) =>
         Get(table, last.key)
           = << "N", "a", "t" >> \o SubSeq(last.sel, Len(National) + 1, Len(last.sel))

\* What the loop body did with the row at position j of the input.
Outcome(j) == outcomes[j]

\* C9 (as stated): when several rows normalize to the same key, the table
\* holds for the key exactly the value computed from the later row, in one
\* entry.
C9_LastRowWins ==
  \A i, j \in 1..Len(rowsRead) :
     ( /\ i < j
       /\ HasTitle(rowsRead[i]) /\ HasTitle(rowsRead[j])
       /\ KeyFor(TitleOf(rowsRead[i])) = KeyFor(TitleOf(rowsRead[j]))
       /\ Outcome(i).kind = "store"
       /\ \A m \in (j + 1)..Len(rowsRead) :
             HasTitle(rowsRead[m]) =>
               KeyFor(TitleOf(rowsRead[m])) # KeyFor(TitleOf(rowsRead[j])) )
     => /\ Outcome(j).kind = "store"
        /\ Cardinality({ n \in 1..Len(table) : table[n].k = Outcome(j).key }) = 1
        /\ Get(table, Outcome(j).key) = Outcome(j).val

\* C9 (amended): at every point of a run each key has one entry, and its
\* value is the one computed from the latest row read so far that was stored
\* under the key; a later row with the same title that the transform rejects
\* leaves the earlier entry as it is.
C9_LastStoredRowWins ==
  /\ \A n \in 1..Len(table) :
        LET key == table[n].k
            stored == { j \in 1..Len(rowsRead) :
                          Outcome(j).kind = "store" /\ Outcome(j).key = key }
        IN /\ Cardinality({ m \in 1..Len(table) : table[m].k = key }) = 1
           /\ stored # { }
           /\ table[n].v = Outcome(CHOOSE j \in stored : \A m \in stored : m <= j).val
  /\ \A j \in 1..Len(rowsRead) :
        Outcome(j).kind = "store" => HasKey(table, Outcome(j).key)

\* Two rows were stored under one key with different values.
C9_Witness ==
  /\ Len(rowsRead) = 2
  /\ Outcome(1).kind = "store"
  /\ Outcome(2).kind = "store"
  /\ Outcome(1).key = Outcome(2).key
  /\ Outcome(1).val # Outcome(2).val
  /\ Len(table) = 1
  /\ table[1].v = Outcome(2).val

OutputOpens == { "open_json", "open_json_failed", "open_js", "open_js_failed" }

\* C10: no output file is opened before the input is exhausted and no row is
\* read after an output was opened; the JSON file is closed before the JS file
\* is opened; a JSON file once written stays, also when opening the JS file
\* fails and the run aborts.
C10_StepOrder ==
  /\ \A i \in 1..Len(log) :
        log[i] \in OutputOpens =>
          /\ \E j \in 1..(i - 1) : log[j] = "eof"
          /\ \A j \in (i + 1)..Len(log) : log[j] # "row"
  /\ \A i \in 1..Len(log) :
        log[i] \in { "open_js", "open_js_failed" } =>
          \E j \in 1..(i - 1) : log[j] = "close_json"
  /\ (\E i \in 1..Len(log) : log[i] = "close_json") =>
        /\ jsonFile.written
        /\ Len(jsonFile.entries) = Len(table)
  /\ (log # << >> /\ log[Len(log)] = "open_js_failed") =>
        pc = "raised" /\ ~jsFile.written

\* Opening the JS file failed after a non-empty JSON file was written.
C10_Witness ==
  /\ log # << >>
  /\ log[Len(log)] = "open_js_failed"
  /\ pc = "raised"
  /\ jsonFile.written
  /\ Len(jsonFile.entries) > 0

====
